---- MODULE Spec2Model ----
(***************************************************************************)
(* A model of go-mod-promote: the task dispatcher (Task.Run), the          *)
(* sync-directory task, Result.Apply with Copy.Apply / Delete.Apply /      *)
(* Patch.Apply, AggregateResult, the diff task's header rewriting, the     *)
(* go.mod replace merger (GoMod.AddReplace / GoMod.Finish) and App.Run.    *)
(*                                                                         *)
(* The module holds several specifications over one set of variables:      *)
(*   Spec      the dispatcher: one Task with any combination of variants   *)
(*   SpecSync  a sync-directory task run, applied and run again            *)
(*   SpecApply Result.Apply on arbitrary Results                           *)
(*   SpecGoMod AddReplace calls followed by Finish                         *)
(*   SpecDiff  the diff task on arbitrary diff-tool outputs                *)
(*   SpecPatch Patch.Apply on arbitrary outcomes of the patch tool         *)
(*   SpecAggregate AggregateResult on arbitrary argument lists             *)
(*   SpecApp   App.Run, in both versions kept in the source                *)
(*   SpecCwd   SpecSync with the tool started below the root path          *)
(* Variables a specification does not use keep their idle value.           *)
(***************************************************************************)
EXTENDS Integers, Sequences, FiniteSets

VARIABLES
    task,        \* the Task being run: which variant pointers are non-nil, and the variants' fields
    srcFiles,    \* tree under filepath.Join(after.Dir, t.Source): relative path -> content
    dstFiles,    \* tree under filepath.Join(rootPath, t.Destination): relative path -> content
    dstDirs,     \* directories existing in the destination tree ("." is its root)
    walkFault,   \* the tree ("src", "dst") whose sub-directory cannot be read, or "none"
    cwd,         \* the working directory of the process, relative to the root path
    offFiles,    \* tree under the working directory joined with t.Destination, when that is
                 \* not the destination tree: relative path -> content
    offDirs,     \* directories existing in that tree
    pc,          \* position in the run / apply pipeline
    runs,        \* number of Task.Run calls made so far
    invoked,     \* the variant executors invoked so far, in order
    execRet,     \* what the last invoked executor returned
    runRet,      \* what the last Task.Run returned
    result,      \* the Result that Result.Apply works on
    applyIdx,    \* index of the next element of the list Result.Apply is ranging over
    attempted,   \* the operations Result.Apply has attempted, in order, with their outcome
    applyErrs,   \* the multierror accumulated by Result.Apply (var result error)
    applyRet,    \* what Result.Apply returned
    firstRet,    \* what the first Task.Run of the pipeline returned (kept for comparison)
    diffErr,     \* what cmd.Run() of the diff tool returns
    diffStdout,  \* the bytes the diff tool wrote to cmd.Stdout
    diffDest,    \* TaskDiff.Destination, as bytes
    replaces,    \* GoMod.replaces: the accumulated directives
    fileReplace, \* GoMod.file.Replace: the manifest's replace entries, each with its syntax line
    addOrder,    \* the directives in the order of the AddReplace calls (history)
    gomodPc,     \* "open" until Finish has run, then "finished"
    finishErr,   \* what Finish returned
    written,     \* the replace lines of the go.mod file on disk
    cmdLog,      \* the write of go.mod and the go commands that Finish has run, in order
    vendorOn,    \* the vendorEnabled argument of Finish
    patchBody,   \* Patch.Body of the patch that Patch.Apply is called on
    patchCount,  \* number of Patch.Apply calls made so far
    patchRet,    \* what the last Patch.Apply returned
    patchSteps,  \* the steps the last Patch.Apply went through, in order
    patchTool,   \* what the last Patch.Apply saw of the patch tool at c.Wait()
    rejectFile,  \* the temporary reject file of the last Patch.Apply: "none", "exists", "removed"
    aggArgs,     \* the arguments of AggregateResult: each nil or a Result
    aggRet,      \* what AggregateResult returned
    appVariant,  \* the App.Run in use: "tasks" (pkg/app/app.go) or "manifest" (with a GoMod)
    appPkgs,     \* a.cfg.Packages in the order the range over the map yields them
    appPos,      \* number of packages the loop of App.Run has taken up
    appPc,       \* position of App.Run
    appResults,  \* the Results collected so far (result in app.go, results with a GoMod)
    appApplied,  \* the Apply calls made on collected Results, in order, with their outcome
    appFinish,   \* "no" until GoMod.Finish is called, then what it returned
    appRet       \* what App.Run returned, and the return statement that did it

taskVars  == <<task, pc, runs, invoked, execRet, runRet, firstRet>>
fsVars    == <<srcFiles, dstFiles, dstDirs, walkFault, cwd, offFiles, offDirs>>
applyVars == <<result, applyIdx, attempted, applyErrs, applyRet>>
diffVars  == <<diffErr, diffStdout, diffDest>>
gomodVars == <<replaces, fileReplace, addOrder, gomodPc, finishErr, written, cmdLog, vendorOn>>
patchVars == <<patchBody, patchCount, patchRet, patchSteps, patchTool, rejectFile>>
aggVars   == <<aggArgs, aggRet>>
appVars   == <<appVariant, appPkgs, appPos, appPc, appResults, appApplied, appFinish, appRet>>
extVars   == <<patchVars, aggVars, appVars>>

vars == <<taskVars, fsVars, applyVars, diffVars, gomodVars, extVars>>

-----------------------------------------------------------------------------
(* Bounds of the model.                                                    *)

\* Task.Run calls in one pipeline (run, apply, run again, ...).
MaxRuns == 2

\* Longest FilesToCopy / FilesToDelete / Patches list of an arbitrary Result.
MaxOps == 2

\* Most content lines in the hunk of a diff-tool output.
MaxHunkLines == 2

\* Most AddReplace calls before Finish.
MaxReplaces == 2

-----------------------------------------------------------------------------
(* Generic helpers.                                                        *)

Nil == "nil"

\* What a run method returns, (*Result, error): nilRes tells a nil *Result
\* (res is then the zero Result), err is Nil or the error's text.
Ret(res, err) == [nilRes |-> FALSE, res |-> res, err |-> err]
RetNil(err) ==
    [nilRes |-> TRUE,
     res    |-> [FilesToCopy |-> <<>>, FilesToDelete |-> <<>>, Patches |-> <<>>],
     err    |-> err]
NoRet == RetNil("not run")

\* All sequences over S of length at most n.
SeqsUpTo(S, n) == UNION {[1..k -> S] : k \in 0..n}

\* All orderings of a finite set: the orders in which a Go map range may
\* visit the keys of S.
Orders(S) ==
    {s \in [1..Cardinality(S) -> S] : \A i, j \in 1..Cardinality(S) : s[i] = s[j] => i = j}

Range(s) == {s[i] : i \in 1..Len(s)}

-----------------------------------------------------------------------------
(* The file trees.                                                         *)

\* Relative paths of regular files below a walked root, and the one
\* sub-directory they use.  Dir and Base are filepath.Dir / filepath.Base.
Paths == {"f", "g", "sub/f"}
SubDir == "sub"
RootDir == "."
Dir(p) == IF p = "sub/f" THEN SubDir ELSE RootDir
Base(p) == IF p = "sub/f" THEN "f" ELSE p

Contents == {"c1", "c2"}
Absent == "absent"

\* A source tree: every file is present (with a content) or absent; the
\* directories a present file needs exist.
SrcTrees == [Paths -> Contents \cup {Absent}]

\* A destination tree: files and the set of existing directories.  A
\* present file's directory exists; the sub-directory needs the root.
DstTreeOK(files, dirs) ==
    /\ \A p \in Paths : files[p] # Absent => Dir(p) \in dirs
    /\ SubDir \in dirs => RootDir \in dirs

\* os.Stat of a path of the source tree: a regular file, a directory or an error.
SrcStat(files, x) ==
    IF x \in Paths
    THEN IF files[x] # Absent THEN "regular" ELSE "enoent"
    ELSE IF \E p \in Paths : Dir(p) = x /\ files[p] # Absent THEN "dir" ELSE "enoent"

\* os.Stat of a path of the destination tree.
DstStat(files, dirs, x) ==
    IF x \in Paths
    THEN IF files[x] # Absent THEN "regular" ELSE "enoent"
    ELSE IF x \in dirs THEN "dir" ELSE "enoent"

-----------------------------------------------------------------------------
(* The sync-directory task (TaskSyncDirectory).                            *)

\* *t.Recursive (nil, true or false) and t.Glob.
WalkFaults == {"none", "src", "dst"}
RecursiveFlags == {"nil", "true", "false"}
Globs == {"", "f*"}

\* filepath.Match(glob, baseName) for the patterns of Globs.
Match(glob, base) == glob = "f*" /\ base = "f"

\* The content hash of a file: SHA-256 of its content, hex-encoded.
hash(content) == <<"sha256", content>>

\* A filter that takes a nil recursion flag for "not recursive".
IncludedNilFlat(t, files, p) ==
    /\ files[p] # Absent
    /\ ~(t.Recursive # "true" /\ Base(p) # p)
    /\ (t.Glob # "" => Match(t.Glob, Base(p)))

\* The filter of the walk function: whether the regular file p is entered
\* into the map.
Included(t, files, p) ==
    /\ files[p] # Absent
    /\ ~(t.Recursive = "false" /\ Base(p) # p)
    /\ (t.Glob # "" => Match(t.Glob, Base(p)))

\* f.IsDir() for the entries of a tree.
IsDir(x) == x \in {RootDir, SubDir}

\* The directories of a source tree: its root and those its files need.
SrcDirs(files) == {RootDir} \cup {Dir(p) : p \in {q \in Paths : files[q] # Absent}}

\* The entries filepath.Walk hands to the walk function: the existing
\* directories and files of the tree.
WalkEntries(files, dirs) == dirs \cup {p \in Paths : files[p] # Absent}

\* walkDirectory: the keys of the map it fills, or the error of the walk.
\* filepath.Walk reports a root that does not exist, and a directory that
\* cannot be read, to the walk function, which returns the error; the walk
\* ends there and the map filled so far is dropped.
walkDirectory(t, files, dirs, fault) ==
    IF RootDir \notin dirs
    THEN [err |-> "lstat: no such file or directory", m |-> {}]
    ELSE IF fault /\ SubDir \in dirs
    THEN [err |-> "open: permission denied", m |-> {}]
    ELSE [err |-> Nil,
          m   |-> {x \in WalkEntries(files, dirs) : ~IsDir(x) /\ Included(t, files, x)}]

\* First loop of run: the source paths that are not in the destination map.
SyncNew(sourceFiles, destinationFiles) ==
    {p \in sourceFiles : p \notin destinationFiles}

\* A second loop that takes no file for changed.
SyncChangedNone(src, dst, sourceFiles, destinationFiles) == {}

\* Second loop of run: the destination paths also in the source map whose
\* hashes differ.
SyncChanged(src, dst, sourceFiles, destinationFiles) ==
    {p \in destinationFiles : p \in sourceFiles /\ hash(dst[p]) # hash(src[p])}

\* A second loop that takes every destination file for gone.
SyncGoneAll(sourceFiles, destinationFiles) == destinationFiles

\* Second loop of run: the destination paths that are not in the source map.
SyncGone(sourceFiles, destinationFiles) ==
    {p \in destinationFiles : p \notin sourceFiles}

\* Copy{Source: sourcePath/filePath, Destination: t.Destination/filePath}
\* for each path of a sequence.
MkCopies(s) == [i \in 1..Len(s) |-> [Source |-> s[i], Destination |-> s[i]]]

\* TaskSyncDirectory.run: the set of its possible returns.  Both loops
\* range over Go maps, so each list comes out in any order; FilesToCopy
\* holds the copies of the first loop before those of the second.
TaskSyncDirectoryRun(t, src, dst, dirs) ==
    LET ws == walkDirectory(t, src, SrcDirs(src), walkFault = "src")
        wd == walkDirectory(t, dst, dirs, walkFault = "dst")
    IN  IF ws.err # Nil THEN {RetNil(ws.err)}
        ELSE IF wd.err # Nil THEN {RetNil(wd.err)}
        ELSE {Ret([FilesToCopy   |-> MkCopies(c1) \o MkCopies(c2),
                   FilesToDelete |-> d,
                   Patches       |-> <<>>], Nil) :
                 c1 \in Orders(SyncNew(ws.m, wd.m)),
                 c2 \in Orders(SyncChanged(src, dst, ws.m, wd.m)),
                 d  \in Orders(SyncGone(ws.m, wd.m))}

-----------------------------------------------------------------------------
(* Copy.Apply, Delete.Apply, Patch.Apply.                                  *)

\* Whether the relative paths Copy.Destination and Delete, which are
\* filepath.Join(t.Destination, filePath), name files of the destination
\* tree (root path joined with t.Destination): the operating system
\* resolves them against the working directory.
RelativeInDst(dir) == dir = RootDir

\* Copy.Apply: the error and the destination tree it leaves.  os.Create
\* needs the destination's directory to exist; it creates no directory.
CopyApply(c, src, dst, dirs) ==
    IF SrcStat(src, c.Source) = "enoent"
    THEN [err |-> "stat: no such file or directory", files |-> dst]
    ELSE IF SrcStat(src, c.Source) # "regular"
    THEN [err |-> "is not a regular file", files |-> dst]
    ELSE IF Dir(c.Destination) \notin dirs
    THEN [err |-> "open: no such file or directory", files |-> dst]
    ELSE [err |-> Nil, files |-> [dst EXCEPT ![c.Destination] = src[c.Source]]]

\* Delete.Apply: the error and the destination tree it leaves.
DeleteApply(d, dst, dirs) ==
    IF DstStat(dst, dirs, d) = "enoent"
    THEN [err |-> "stat: no such file or directory", files |-> dst]
    ELSE IF DstStat(dst, dirs, d) # "regular"
    THEN [err |-> "is not a regular file", files |-> dst]
    ELSE [err |-> Nil, files |-> [dst EXCEPT ![d] = Absent]]

\* The steps of Patch.Apply that can fail before the tool is waited for.
PatchSetupSteps == <<"tempfile", "close", "pipe", "start", "write", "stdinclose">>

\* Byte strings: what the tool leaves in the reject file, on stdout and on
\* stderr.
RejectBodies == {<<>>, <<"r">>, <<"r", "s">>}
ToolOutputs == {<<>>, <<"o">>}

\* What the environment decides in one Patch.Apply: the first step that
\* fails (none: the tool runs to its exit), the patch tool's exit code, the
\* state of the reject file when it is read ("unreadable": ioutil.ReadFile
\* fails, "empty", "data").
PatchEnvs ==
    [fail   : {"none", "tempfile", "close", "pipe", "start", "write", "stdinclose"},
     exit   : 0..2,
     reject : {"unreadable", "empty", "data"}]

\* The bytes ioutil.ReadFile finds in the reject file.
RejectOf(env, body) == IF env.reject = "empty" THEN <<>> ELSE body

\* The steps Patch.Apply goes through under env, the failing one included.
RECURSIVE StepsUpTo(_, _)
StepsUpTo(fail, k) ==
    IF k > Len(PatchSetupSteps) THEN <<"wait">>
    ELSE IF PatchSetupSteps[k] = fail THEN <<fail>>
    ELSE <<PatchSetupSteps[k]>> \o StepsUpTo(fail, k + 1)

PatchStepsOf(env) == StepsUpTo(env.fail, 1)

\* Whether ioutil.TempFile has created the reject file on this path.
RejectFileCreated(env) == env.fail # "tempfile"

\* A removal that is in effect only once the tool has been waited for.
RemoveAfterWaitOnly(steps) == steps[Len(steps)] = "wait"

\* Whether the deferred os.Remove(rejectFile.Name()) is in effect when Apply
\* returns after these steps: it is deferred right after a successful
\* TempFile.
RemoveDeferred(steps) == ~(steps = <<"tempfile">>)

\* c.ExitCode after c.Wait(): the exit code of the tool's process, as the
\* process runner reports it.
CmdExitCode(exit) == exit

\* The error values of Patch.Apply.
NoPatchErr == [kind |-> "nil", Upstream |-> <<>>, Reject |-> <<>>, msg |-> <<>>]
PlainErr(e) == [kind |-> "error", Upstream |-> e, Reject |-> <<>>, msg |-> <<>>]
PatchErr(e, rej, out) == [kind |-> "PatchError", Upstream |-> e, Reject |-> rej, msg |-> out]

\* fmt.Errorf("error applying patch: %w stdout=[%s] stderr=[%s]", ...)
WaitErr(exit, out, errout) == <<"error applying patch", exit, out, errout>>

\* A use of the reject bytes that does not look at their length.
RejectUsableWhenRead(readable, rejectBody) == readable

\* Whether the reject bytes make a PatchError: ReadFile succeeded and
\* len(rejectBody) is not 0.
RejectUsable(readable, rejectBody) == readable /\ ~(Len(rejectBody) = 0)

\* Patch.Apply from c.Wait() on: what it returns.
PatchAfterWait(env, rej, out, errout) ==
    IF env.exit = 0 THEN NoPatchErr
    ELSE IF CmdExitCode(env.exit) = 1
            /\ RejectUsable(env.reject # "unreadable", RejectOf(env, rej))
    THEN PatchErr(WaitErr(env.exit, out, errout), RejectOf(env, rej), out)
    ELSE PlainErr(WaitErr(env.exit, out, errout))

\* Patch.Apply: the error value it returns.
PatchApplyErr(env, rej, out, errout) ==
    IF env.fail # "none" THEN PlainErr(<<env.fail>>)
    ELSE PatchAfterWait(env, rej, out, errout)

\* Patch.Apply: the kind of error it returns.
PatchApply(env) ==
    LET kind == PatchApplyErr(env, <<"r">>, <<>>, <<>>).kind
    IN  IF kind = "nil" THEN Nil ELSE kind

\* Most Patch.Apply calls in a row.
MaxPatchCalls == 2

\* What c.Wait() shows of the tool; NotWaited when Apply returned before.
NotWaited ==
    [waited |-> FALSE, exit |-> 0, reject |-> "empty", rejectBody |-> <<>>,
     out |-> <<>>, errout |-> <<>>]

\* Patch.Apply
PatchApplyCall ==
    /\ patchCount < MaxPatchCalls
    /\ \E env \in PatchEnvs, rej \in RejectBodies \ {<<>>}, out \in ToolOutputs,
          errout \in ToolOutputs :
          LET steps == PatchStepsOf(env)
          IN  /\ patchSteps' = steps
              /\ patchRet' = PatchApplyErr(env, rej, out, errout)
              /\ patchTool' =
                    IF env.fail = "none"
                    THEN [waited |-> TRUE, exit |-> env.exit, reject |-> env.reject,
                          rejectBody |-> RejectOf(env, rej), out |-> out, errout |-> errout]
                    ELSE NotWaited
              /\ rejectFile' =
                    IF ~RejectFileCreated(env) THEN "none"
                    ELSE IF RemoveDeferred(steps) THEN "removed"
                    ELSE "exists"
    /\ patchCount' = patchCount + 1
    /\ UNCHANGED <<taskVars, fsVars, applyVars, diffVars, gomodVars, patchBody, aggVars, appVars>>

-----------------------------------------------------------------------------
(* Result.IsEmpty and Result.Apply.                                        *)

EmptyResult == [FilesToCopy |-> <<>>, FilesToDelete |-> <<>>, Patches |-> <<>>]

IsEmpty(r) ==
    ~(Len(r.FilesToCopy) > 0) /\ ~(Len(r.FilesToDelete) > 0) /\ ~(Len(r.Patches) > 0)

\* The loops in another order: copies first.
ApplyOrderCopiesFirst == <<"copy", "patch", "delete">>

\* The three loops of Result.Apply, in the order of the code.
ApplyOrder == <<"patch", "delete", "copy">>

OpsOf(r, kind) ==
    CASE kind = "patch"  -> r.Patches
      [] kind = "delete" -> r.FilesToDelete
      [] kind = "copy"   -> r.FilesToCopy

\* The first loop at or after the k-th that has an element to range over;
\* "return" when none is left.
RECURSIVE LoopFrom(_, _)
LoopFrom(r, k) ==
    IF k > Len(ApplyOrder) THEN "return"
    ELSE IF Len(OpsOf(r, ApplyOrder[k])) > 0 THEN ApplyOrder[k]
    ELSE LoopFrom(r, k + 1)

KindPos(kind) == CHOOSE k \in 1..Len(ApplyOrder) : ApplyOrder[k] = kind

\* Where Apply stands after element idx of the loop over kind.
AfterOp(r, kind, idx) ==
    IF idx < Len(OpsOf(r, kind))
    THEN [pc |-> kind, idx |-> idx + 1]
    ELSE [pc |-> LoopFrom(r, KindPos(kind) + 1), idx |-> 1]

\* An accumulation that keeps the last error only.
AppendErrorKeepLast(errs, e) == <<e>>

\* multierror.Append(result, err) for an err that is no multierror itself.
AppendError(errs, e) == Append(errs, e)

\* One iteration of a loop of Result.Apply: the operation is logged as
\* attempted; its error, if any, is appended and the loop continues.
ApplyOne(kind, err) ==
    /\ attempted' = Append(attempted, [kind |-> kind, idx |-> applyIdx, ok |-> err = Nil])
    /\ applyErrs' = IF err # Nil
                    THEN AppendError(applyErrs, [kind |-> kind, idx |-> applyIdx, err |-> err])
                    ELSE applyErrs
    /\ pc' = AfterOp(result, kind, applyIdx).pc
    /\ applyIdx' = AfterOp(result, kind, applyIdx).idx

\* for pos, patch := range r.Patches
PatchStep ==
    /\ pc = "patch"
    /\ \E env \in PatchEnvs : ApplyOne("patch", PatchApply(env))
    /\ UNCHANGED <<task, runs, invoked, execRet, runRet, firstRet, fsVars, result, applyRet,
                   diffVars, gomodVars, extVars>>

\* for _, toDelete := range r.FilesToDelete
DeleteStep ==
    /\ pc = "delete"
    /\ LET here == RelativeInDst(cwd)
           r    == DeleteApply(result.FilesToDelete[applyIdx],
                               IF here THEN dstFiles ELSE offFiles,
                               IF here THEN dstDirs ELSE offDirs)
       IN  /\ ApplyOne("delete", r.err)
           /\ dstFiles' = IF here THEN r.files ELSE dstFiles
           /\ offFiles' = IF here THEN offFiles ELSE r.files
    /\ UNCHANGED <<task, runs, invoked, execRet, runRet, firstRet, srcFiles, dstDirs, walkFault,
                   cwd, offDirs, result, applyRet, diffVars, gomodVars, extVars>>

\* for _, toCopy := range r.FilesToCopy
CopyStep ==
    /\ pc = "copy"
    /\ LET here == RelativeInDst(cwd)
           r    == CopyApply(result.FilesToCopy[applyIdx], srcFiles,
                             IF here THEN dstFiles ELSE offFiles,
                             IF here THEN dstDirs ELSE offDirs)
       IN  /\ ApplyOne("copy", r.err)
           /\ dstFiles' = IF here THEN r.files ELSE dstFiles
           /\ offFiles' = IF here THEN offFiles ELSE r.files
    /\ UNCHANGED <<task, runs, invoked, execRet, runRet, firstRet, srcFiles, dstDirs, walkFault,
                   cwd, offDirs, result, applyRet, diffVars, gomodVars, extVars>>

\* return result
ApplyReturn ==
    /\ pc = "return"
    /\ applyRet' = IF applyErrs = <<>> THEN Nil ELSE "multierror"
    /\ pc' = "applied"
    /\ UNCHANGED <<task, runs, invoked, execRet, runRet, firstRet, fsVars, result, applyIdx,
                   attempted, applyErrs, diffVars, gomodVars, extVars>>

-----------------------------------------------------------------------------
(* The diff task (TaskDiff).                                               *)

TAB == "\t"
NL == "\n"
ZeroByte == "\\0"

\* What cmd.Run() returns: nil, an *exec.ExitError with the tool's exit
\* code, or an error that is no exit status (the tool could not be started).
NoError == [kind |-> "nil", code |-> 0]
ExitError(c) == [kind |-> "ExitError", code |-> c]
StartError == [kind |-> "other", code |-> 0]

\* The initial size of a bufio.Scanner's buffer: the capacity that the
\* token slices returned by scanner.Bytes() share.
ScanBufCap == 4096

\* filepath.Join(path, t.Destination) for a clean relative destination.
Join(path, dest) == IF dest = <<>> THEN path ELSE path \o <<"/">> \o dest

\* bytes.HasPrefix(b, c c c) for the token buf[lo..hi].
HasPrefix3(buf, lo, hi, c) ==
    hi - lo + 1 >= 3 /\ buf[lo] = c /\ buf[lo + 1] = c /\ buf[lo + 2] = c

\* The byte at index i of the buffer; the buffer is zeroed behind its data.
At(buf, i) == IF i <= Len(buf) THEN buf[i] ELSE ZeroByte

\* The least index in lo..hi holding byte c, 0 when there is none.
IndexOf(buf, lo, hi, c) ==
    IF \E i \in lo..hi : buf[i] = c
    THEN CHOOSE i \in lo..hi : buf[i] = c /\ \A j \in lo..(i - 1) : buf[j] # c
    ELSE 0

\* append(b[:4], path...) where b is the token starting at index lo of the
\* scanner's buffer: b[:4] has the capacity of the rest of the buffer, so
\* while the path fits, append writes it into the buffer behind the first
\* four bytes of the token; only a path that does not fit is written to a
\* new array.  The buffer after the call.
AppendInPlace(buf, lo, path) ==
    IF (lo - 1) + 4 + Len(path) <= ScanBufCap
    THEN [i \in 1..Len(buf) |->
            IF i >= lo + 4 /\ i < lo + 4 + Len(path) THEN path[i - lo - 3] ELSE buf[i]]
    ELSE buf

\* The rewriting of one header line (the token buf[lo..hi], path already
\* joined): the buffer it leaves and the bytes it appends to diff.
RewriteHeader(buf, lo, hi, path) ==
    LET head == [i \in 1..4 |-> At(buf, lo + i - 1)]
        nbuf == AppendInPlace(buf, lo, path)
        \* offset := 3; pos := bytes.IndexRune(b[offset:], '\t'); if pos > 0
        tab  == IndexOf(nbuf, lo + 3, hi, TAB)
        rest == IF tab > lo + 3 THEN SubSeq(nbuf, tab, hi) ELSE <<>>
    IN  [buf |-> nbuf, out |-> head \o path \o rest \o <<NL>>]

\* The scanner loop of run: from index start of the buffer, the bytes
\* appended to diff.  bufio.ScanLines yields the bytes up to the next
\* newline; the token is a slice of the buffer itself.
RECURSIVE ScanLoop(_, _, _, _)
ScanLoop(buf, start, dest, diff) ==
    IF start > Len(buf) THEN diff
    ELSE LET nl   == IndexOf(buf, start, Len(buf), NL)
             hi   == IF nl = 0 THEN Len(buf) ELSE nl - 1
             next == IF nl = 0 THEN Len(buf) + 1 ELSE nl + 1
         IN  IF HasPrefix3(buf, start, hi, "+")
             THEN LET r == RewriteHeader(buf, start, hi, Join(<<"n", "e", "w">>, dest))
                  IN  ScanLoop(r.buf, next, dest, diff \o r.out)
             ELSE IF HasPrefix3(buf, start, hi, "-")
             THEN LET r == RewriteHeader(buf, start, hi, Join(<<"o", "l", "d">>, dest))
                  IN  ScanLoop(r.buf, next, dest, diff \o r.out)
             ELSE ScanLoop(buf, next, dest, diff \o SubSeq(buf, start, hi) \o <<NL>>)

\* err.Error()
ErrorText(err) ==
    CASE err.kind = "nil"       -> Nil
      [] err.kind = "ExitError" -> IF err.code = 1 THEN "exit status 1" ELSE "exit status 2"
      [] err.kind = "other"     -> "exec: executable file not found"

\* A check that takes every exit error for fatal, exit code 1 included.
DiffRunAbortsAnyExit(err) == err.kind = "ExitError"

\* Whether run returns the error of cmd.Run():
\* errors.As(err, &exitErr) && exitErr.ExitCode() != 1.
DiffRunAborts(err) == err.kind = "ExitError" /\ err.code # 1

\* TaskDiff.run: what it returns.
TaskDiffRun(err, stdout, dest) ==
    IF err.kind # "nil" /\ DiffRunAborts(err)
    THEN RetNil(ErrorText(err))
    ELSE Ret([FilesToCopy   |-> <<>>,
              FilesToDelete |-> <<>>,
              Patches       |-> <<[Body |-> ScanLoop(stdout, 1, dest, <<>>)]>>], Nil)

\* Lines of a unified diff.  The two header lines name the compared files,
\* followed by a tab and a timestamp; the original path is short or long.
OrigPaths == {<<"a">>, <<"a", "a", "a", "a", "a", "a", "a", "a">>}
HeaderOld(orig) == <<"-", "-", "-", " ">> \o orig \o <<TAB, "1">>
HeaderNew(orig) == <<"+", "+", "+", " ">> \o orig \o <<TAB, "2">>
HunkHeader == <<"@", "@">>

\* Content lines of a hunk: context, removed, added; a removed line whose
\* text is "--y" and an added line whose text is "++z".
HunkLines ==
    {<<" ", "x">>, <<"-", "y">>, <<"+", "z">>, <<"-", "-", "-", "y">>, <<"+", "+", "+", "z">>}

\* The lines joined, a newline behind each.
RECURSIVE JoinLines(_)
JoinLines(lines) ==
    IF lines = <<>> THEN <<>>
    ELSE Head(lines) \o <<NL>> \o JoinLines(Tail(lines))

\* The outputs of diff -u: nothing (no difference), or the two headers and
\* one hunk.
DiffOutputs ==
    {<<>>} \cup
    {JoinLines(<<HeaderOld(o), HeaderNew(o), HunkHeader>> \o h) :
        o \in OrigPaths, h \in SeqsUpTo(HunkLines, MaxHunkLines)}

\* TaskDiff.Destination: empty, shorter and longer than the original paths.
Destinations ==
    {<<>>, <<"d">>, <<"d", "d", "d", "d", "d", "d", "d", "d", "d", "d">>}

\* The diff tool's exit status and output agree: exit 0 writes nothing,
\* exit 1 writes a diff, a tool that was not started wrote nothing.
DiffRunOK(err, stdout) ==
    /\ err \in {NoError, StartError} => stdout = <<>>
    /\ err = ExitError(1) => stdout # <<>>

DiffErrs == {NoError, ExitError(1), ExitError(2), StartError}

-----------------------------------------------------------------------------
(* AggregateResult.                                                        *)

\* Most arguments of one AggregateResult call.
MaxResults == 3

\* A *Result argument: nil, or a pointer to r.
NilResult == [isNil |-> TRUE, r |-> EmptyResult]
SomeResult(r) == [isNil |-> FALSE, r |-> r]

\* The value of aggRet before the call.
NoAggregate == [returned |-> FALSE, r |-> EmptyResult]

\* An iteration that puts the lists of r in front of the aggregate's.
AggAppendFront(aggregate, r) ==
    [FilesToCopy   |-> r.FilesToCopy \o aggregate.FilesToCopy,
     FilesToDelete |-> r.FilesToDelete \o aggregate.FilesToDelete,
     Patches       |-> r.Patches \o aggregate.Patches]

\* One iteration of the loop for a non-nil r: the three appends.
AggAppend(aggregate, r) ==
    [FilesToCopy   |-> aggregate.FilesToCopy \o r.FilesToCopy,
     FilesToDelete |-> aggregate.FilesToDelete \o r.FilesToDelete,
     Patches       |-> aggregate.Patches \o r.Patches]

\* The loop of AggregateResult from the i-th argument on.
RECURSIVE AggregateFrom(_, _, _)
AggregateFrom(results, i, aggregate) ==
    IF i > Len(results) THEN aggregate
    ELSE IF results[i].isNil THEN AggregateFrom(results, i + 1, aggregate)
    ELSE AggregateFrom(results, i + 1, AggAppend(aggregate, results[i].r))

\* AggregateResult(results...)
AggregateResult(results) == AggregateFrom(results, 1, EmptyResult)

\* The Results handed to AggregateResult.
AggInputs ==
    {NilResult,
     SomeResult(EmptyResult),
     SomeResult([EmptyResult EXCEPT !.FilesToCopy = MkCopies(<<"f">>)]),
     SomeResult([EmptyResult EXCEPT !.FilesToDelete = <<"g">>]),
     SomeResult([EmptyResult EXCEPT !.Patches = <<[Body |-> <<"@">>]>>]),
     SomeResult([FilesToCopy   |-> MkCopies(<<"g", "sub/f">>),
                 FilesToDelete |-> <<"f", "sub/f">>,
                 Patches       |-> <<[Body |-> <<"@", "@">>]>>])}

\* A call of AggregateResult.
AggregateCall ==
    /\ ~aggRet.returned
    /\ aggRet' = [returned |-> TRUE, r |-> AggregateResult(aggArgs)]
    /\ UNCHANGED <<taskVars, fsVars, applyVars, diffVars, gomodVars, patchVars, aggArgs, appVars>>

-----------------------------------------------------------------------------
(* App.Run: the loop over the configured packages, the Results it          *)
(* collects, their application and GoMod.Finish.  Two versions of the      *)
(* function are kept in the source: "tasks" is pkg/app/app.go, which       *)
(* aggregates the task Results into one Result; "manifest" is the one      *)
(* that opens a GoMod, collects a list of Results and calls Finish.        *)

\* Bound: tasks configured for one package.
MaxTasks == 1

AppVariants == {"tasks", "manifest"}

\* The keys of a.cfg.Packages.
AppPackages == {"a", "b"}

\* What task.Run does for a task: fails, returns an empty Result, or
\* returns a Result with an operation in it.
TaskOutcomes == {"err", "empty", "change"}

\* Which goModDownload of a package fails, if any.
Downloads == {"ok", "before", "after"}

\* The state of a package: whether modBefore.Version differs from
\* modAfter.Version, the downloads, and its cfg.Tasks.
PackageConfigs(name) ==
    [name : {name}, moved : BOOLEAN, download : Downloads,
     tasks : SeqsUpTo(TaskOutcomes, MaxTasks)]

\* a.cfg.Packages, in every order a range over the map can yield.
PackageLists ==
    {<<>>}
    \cup {<<c>> : c \in UNION {PackageConfigs(n) : n \in AppPackages}}
    \cup {<<c, d>> : c \in PackageConfigs("a"), d \in PackageConfigs("b")}
    \cup {<<d, c>> : c \in PackageConfigs("a"), d \in PackageConfigs("b")}

\* The value of appRet while App.Run is running, and after a return.
NotReturned == [returned |-> FALSE, err |-> "none", at |-> "none"]
Returned(err, at) == [returned |-> TRUE, err |-> err, at |-> at]

\* The Result a task of package name returns: the operation of a
\* non-empty one is named after the package.
TaskResultOf(name, outcome) ==
    IF outcome = "change" THEN [EmptyResult EXCEPT !.FilesToDelete = <<name>>]
    ELSE EmptyResult

\* A task loop that takes no notice of err.
TaskFailsNever(outcome) == FALSE

\* if err != nil after task.Run
TaskFails(outcome) == outcome = "err"

\* The loop over cfg.Tasks from the i-th task on.
RECURSIVE RunTasks(_, _, _)
RunTasks(pkg, i, taskResults) ==
    IF i > Len(pkg.tasks) THEN [err |-> "none", results |-> taskResults]
    ELSE IF TaskFails(pkg.tasks[i]) THEN [err |-> "task", results |-> taskResults]
    ELSE RunTasks(pkg, i + 1,
                  Append(taskResults, SomeResult(TaskResultOf(pkg.name, pkg.tasks[i]))))

\* The values of the Result interface: a *goModUpdateResult or a
\* *tasks.Result.
GoModUpdateResult(name) == [kind |-> "goMod", pkg |-> name, r |-> EmptyResult]
TasksResult(name, r) == [kind |-> "tasks", pkg |-> name, r |-> r]

\* An IsEmpty that always reports empty.
GoModUpdateIsEmptyAlways(x) == TRUE

\* (*goModUpdateResult).IsEmpty
GoModUpdateIsEmpty(x) == FALSE

\* r.IsEmpty() on a value of the Result interface.
ResultIsEmpty(x) ==
    IF x.kind = "goMod" THEN GoModUpdateIsEmpty(x) ELSE IsEmpty(x.r)

\* The statement taken when modBefore.Version == modAfter.Version.
VersionsMatch(variant) == IF variant = "tasks" THEN "return" ELSE "continue"

\* The collected Results after a package whose tasks all ran.
Collect(variant, results, pkg, taskResults) ==
    IF variant = "tasks"
    THEN <<TasksResult("", AggregateResult(taskResults \o <<SomeResult(results[1].r)>>))>>
    ELSE results \o <<GoModUpdateResult(pkg.name),
                      TasksResult(pkg.name, AggregateResult(taskResults))>>

\* The statements of App.Run before the loop.
AppStart ==
    /\ appPc = "start"
    /\ \E opened \in BOOLEAN :
         IF appVariant = "tasks"
         THEN /\ opened
              /\ appResults' = <<TasksResult("", EmptyResult)>>
              /\ appPc' = "loop"
              /\ appRet' = appRet
         ELSE /\ appResults' = <<>>
              /\ appPc' = IF opened THEN "loop" ELSE "done"
              /\ appRet' = IF opened THEN appRet ELSE Returned("gomod", "open")
    /\ UNCHANGED <<taskVars, fsVars, applyVars, diffVars, gomodVars, patchVars, aggVars,
                   appVariant, appPkgs, appPos, appApplied, appFinish>>

\* One iteration of the loop over a.cfg.Packages.
AppPackage ==
    /\ appPc = "loop"
    /\ appPos < Len(appPkgs)
    /\ LET pkg == appPkgs[appPos + 1]
           ran == RunTasks(pkg, 1, <<>>)
       IN  /\ appPos' = appPos + 1
           /\ IF pkg.download # "ok"
              THEN /\ appRet' = Returned("download", pkg.download)
                   /\ appPc' = "done"
                   /\ appResults' = appResults
              ELSE IF ~pkg.moved
              THEN /\ appRet' = IF VersionsMatch(appVariant) = "return"
                                THEN Returned("none", "versions") ELSE appRet
                   /\ appPc' = IF VersionsMatch(appVariant) = "return" THEN "done" ELSE "loop"
                   /\ appResults' = appResults
              ELSE IF ran.err # "none"
              THEN /\ appRet' = Returned(ran.err, "tasks")
                   /\ appPc' = "done"
                   /\ appResults' = appResults
              ELSE /\ appRet' = appRet
                   /\ appPc' = "loop"
                   /\ appResults' = Collect(appVariant, appResults, pkg, ran.results)
    /\ UNCHANGED <<taskVars, fsVars, applyVars, diffVars, gomodVars, patchVars, aggVars,
                   appVariant, appPkgs, appApplied, appFinish>>

\* workToDo, or !result.IsEmpty() in app.go.
WorkToDo(results) == \E i \in 1..Len(results) : ~ResultIsEmpty(results[i])

\* The exit after the loop when there is nothing to do.
AppWorkToDo ==
    /\ appPc = "loop"
    /\ appPos = Len(appPkgs)
    /\ IF ~WorkToDo(appResults)
       THEN /\ appRet' = Returned("none", "no changes")
            /\ appPc' = "done"
       ELSE /\ appRet' = appRet
            /\ appPc' = IF appVariant = "tasks" THEN "apply" ELSE "git"
    /\ UNCHANGED <<taskVars, fsVars, applyVars, diffVars, gomodVars, patchVars, aggVars,
                   appVariant, appPkgs, appPos, appResults, appApplied, appFinish>>

\* What git status and git stash push do.
GitOutcomes == {"clean", "stashed", "status failed", "stash failed"}

\* gitIsWorkingDirClean and the stash of a dirty working directory.
AppGit ==
    /\ appPc = "git"
    /\ \E git \in GitOutcomes :
         IF git \in {"status failed", "stash failed"}
         THEN /\ appRet' = Returned("git", git)
              /\ appPc' = "done"
         ELSE /\ appRet' = appRet
              /\ appPc' = IF appVariant = "tasks" THEN "publish" ELSE "apply"
    /\ UNCHANGED <<taskVars, fsVars, applyVars, diffVars, gomodVars, patchVars, aggVars,
                   appVariant, appPkgs, appPos, appResults, appApplied, appFinish>>

\* Apply of x can return an error: UpdatePackage can, and a Result with
\* an operation can.
CanFail(x) == x.kind = "goMod" \/ ~IsEmpty(x.r)

\* The Apply calls of the loop over the results when the failAt-th fails
\* (0: none does).
ApplyCalls(results, failAt) ==
    [i \in 1..(IF failAt = 0 THEN Len(results) ELSE failAt) |->
        [kind |-> results[i].kind, pkg |-> results[i].pkg, r |-> results[i].r,
         ok |-> i # failAt]]

\* The application of the collected Results.
AppApply ==
    /\ appPc = "apply"
    /\ \E failAt \in 0..Len(appResults) :
         /\ failAt # 0 => CanFail(appResults[failAt])
         /\ appApplied' = ApplyCalls(appResults, failAt)
         /\ IF failAt # 0
            THEN /\ appRet' = Returned("error applying changes", "apply")
                 /\ appPc' = "done"
            ELSE /\ appRet' = appRet
                 /\ appPc' = IF appVariant = "tasks" THEN "git" ELSE "finish"
    /\ UNCHANGED <<taskVars, fsVars, applyVars, diffVars, gomodVars, patchVars, aggVars,
                   appVariant, appPkgs, appPos, appResults, appFinish>>

\* goMod.Finish(ctx, a.cfg.VendorDirectory)
AppFinish ==
    /\ appPc = "finish"
    /\ \E err \in {"none", "finish"} :
         /\ appFinish' = IF err = "none" THEN "ok" ELSE "err"
         /\ appRet' = IF err = "none" THEN appRet ELSE Returned(err, "finish")
         /\ appPc' = IF err = "none" THEN "publish" ELSE "done"
    /\ UNCHANGED <<taskVars, fsVars, applyVars, diffVars, gomodVars, patchVars, aggVars,
                   appVariant, appPkgs, appPos, appResults, appApplied>>

\* The branch, the commit, the push and the pull request.
AppPublish ==
    /\ appPc = "publish"
    /\ \E err \in {"none", "publish"} :
         appRet' = Returned(err, "end")
    /\ appPc' = "done"
    /\ UNCHANGED <<taskVars, fsVars, applyVars, diffVars, gomodVars, patchVars, aggVars,
                   appVariant, appPkgs, appPos, appResults, appApplied, appFinish>>

-----------------------------------------------------------------------------
(* The go.mod replace merger (GoMod).                                      *)

\* api.GoModReplacePriority values.
GoModReplacePriorityManagedPackage == 1000
GoModReplaceUpstreamPackageVersion == 400
GoModReplaceUpstreamReplace == 200

Priorities ==
    {GoModReplaceUpstreamReplace, GoModReplaceUpstreamPackageVersion,
     GoModReplacePriorityManagedPackage}

\* Old module versions ("" is none: the directive holds for every version)
\* and new modules.
OldVersions == {"", "v1"}
Targets == {"X", "Y"}

\* The directives handed to AddReplace: api.GoModReplace values for old
\* path "p".  Those of the middle priority carry a Comment.
Directives ==
    {[Old      |-> [Path |-> "p", Version |-> v],
      New      |-> n,
      Priority |-> prio,
      Comment  |-> IF prio = GoModReplaceUpstreamPackageVersion THEN "managed" ELSE ""] :
        v \in OldVersions, n \in Targets, prio \in Priorities}

\* A syntax line of the manifest: replace Path [Version] => New, with the
\* comment in front of it; live is FALSE for no line (a nil Syntax, or a
\* line that was removed from the file).
Line(path, version, new, before) ==
    [Path |-> path, Version |-> version, New |-> new, Before |-> before, live |-> TRUE]

\* No comment in front of a line.
NoComment == <<>>

NoLine == [Path |-> "", Version |-> "", New |-> "", Before |-> NoComment, live |-> FALSE]

\* A *modfile.Replace of file.Replace as the parser yields it.
Parsed(path, version, new, before) ==
    [Old |-> [Path |-> path, Version |-> version], New |-> new,
     Syntax |-> Line(path, version, new, before)]

\* The zero Replace that AddReplace leaves in place of a dropped entry.
ZeroReplace == [Old |-> [Path |-> "", Version |-> ""], New |-> "", Syntax |-> NoLine]

\* The token of the comment that marks a managed entry.
Marker(comment) == <<"// [go-mod-promote] ", comment>>

\* modfile.File.AddReplace(oldPath, oldVers, newPath, newVers) of
\* golang.org/x/mod: the first entry for the old path (and the old version,
\* when one is given) gets the new module and a rewritten line, every
\* further such entry is dropped, and without any such entry one is appended.
\* An updated entry keeps its Old (also when the rewritten line has none).
RECURSIVE FileAddReplaceFrom(_, _, _, _, _)
FileAddReplaceFrom(file, i, need, old, new) ==
    IF i > Len(file)
    THEN IF need
         THEN Append(file, [Old |-> old, New |-> new,
                            Syntax |-> Line(old.Path, old.Version, new, NoComment)])
         ELSE file
    ELSE IF file[i].Old.Path = old.Path
            /\ (old.Version = "" \/ file[i].Old.Version = old.Version)
    THEN IF need
         THEN FileAddReplaceFrom(
                  [file EXCEPT ![i].New = new,
                               ![i].Syntax = Line(old.Path, old.Version, new,
                                                  file[i].Syntax.Before)],
                  i + 1, FALSE, old, new)
         ELSE FileAddReplaceFrom([file EXCEPT ![i] = ZeroReplace], i + 1, need, old, new)
    ELSE FileAddReplaceFrom(file, i + 1, need, old, new)

FileAddReplace(file, old, new) == FileAddReplaceFrom(file, 1, TRUE, old, new)

\* The entries the comment loop of addReplace matches.
CommentMatches(file, input) ==
    {i \in 1..Len(file) :
        /\ file[i].Old.Path = input.Old.Path
        /\ (input.Old.Version = "" \/ file[i].Old.Version = input.Old.Version)}

\* GoMod.addReplace: the error and the file it leaves.
addReplace(file, input) ==
    LET added == FileAddReplace(file, input.Old, input.New)
        ms    == CommentMatches(added, input)
    IN  IF input.Comment = "" THEN [err |-> Nil, file |-> added]
        ELSE IF ms = {}
        THEN [err |-> "error entry was not found to add comment", file |-> added]
        ELSE LET i == CHOOSE k \in ms : \A j \in ms : k <= j
             IN  [err |-> Nil,
                  file |-> [added EXCEPT ![i].Syntax.Before = Marker(input.Comment)]]

\* for _, replace := range g.replaces { addReplace }: the first error
\* ends the loop.
RECURSIVE MergeFrom(_, _, _)
MergeFrom(file, rs, i) ==
    IF i > Len(rs) THEN [err |-> Nil, file |-> file]
    ELSE LET r == addReplace(file, rs[i])
         IN  IF r.err # Nil THEN r ELSE MergeFrom(r.file, rs, i + 1)

\* No sorting at all: the directives stay in the order of the calls.
SortSliceUnsorted(rs) == {[i \in 1..Len(rs) |-> i]}

\* sort.Slice(g.replaces, less by Priority): the permutations of the
\* indices that it may produce.  sort.Slice is not a stable sort: elements
\* of equal priority come out in any order.
SortSlice(rs) ==
    {perm \in Orders(1..Len(rs)) :
        \A i, j \in 1..Len(rs) : i < j => ~(rs[perm[j]].Priority < rs[perm[i]].Priority)}

\* g.file.Format(): the replace lines of the serialized manifest.
Format(file) == {file[i].Syntax : i \in {k \in 1..Len(file) : file[k].Syntax.live}}

\* What the environment decides in one Finish: whether the write of the
\* file, go mod verify and go mod vendor succeed.
FinishEnvs == [write : BOOLEAN, verify : BOOLEAN, vendor : BOOLEAN]

\* GoMod.AddReplace
AddReplace ==
    /\ gomodPc = "open"
    /\ Len(replaces) < MaxReplaces
    /\ \E r \in Directives :
          /\ replaces' = Append(replaces, r)
          /\ addOrder' = Append(addOrder, r)
    /\ UNCHANGED <<taskVars, fsVars, applyVars, diffVars, fileReplace, gomodPc, finishErr,
                   written, cmdLog, vendorOn, extVars>>

\* A Finish that runs go mod vendor whether or not go mod verify succeeded.
FinishStepsVendorUnverified(mergeErr, env, vendorEnabled) ==
    IF mergeErr # Nil THEN <<>>
    ELSE IF ~env.write THEN <<"write go.mod">>
    ELSE IF ~vendorEnabled THEN <<"write go.mod", "go mod verify">>
    ELSE <<"write go.mod", "go mod verify", "go mod vendor">>

\* The steps of Finish after the merge that are executed, the failing one
\* included: ioutil.WriteFile, go mod verify, go mod vendor.
FinishSteps(mergeErr, env, vendorEnabled) ==
    IF mergeErr # Nil THEN <<>>
    ELSE IF ~env.write THEN <<"write go.mod">>
    ELSE IF ~env.verify \/ ~vendorEnabled THEN <<"write go.mod", "go mod verify">>
    ELSE <<"write go.mod", "go mod verify", "go mod vendor">>

\* What Finish returns: the error of the first failing step.
FinishError(mergeErr, env, vendorEnabled) ==
    IF mergeErr # Nil THEN mergeErr
    ELSE IF ~env.write THEN "write go.mod"
    ELSE IF ~env.verify THEN "go mod verify"
    ELSE IF vendorEnabled /\ ~env.vendor THEN "go mod vendor"
    ELSE Nil

\* GoMod.Finish(ctx, vendorEnabled)
Finish ==
    /\ gomodPc = "open"
    /\ \E perm \in SortSlice(replaces) :
          LET sorted == [i \in 1..Len(replaces) |-> replaces[perm[i]]]
              merged == MergeFrom(fileReplace, sorted, 1)
              lines  == Format(merged.file)
          IN  /\ replaces' = sorted
              /\ fileReplace' = merged.file
              /\ \E env \in FinishEnvs, vendorEnabled \in BOOLEAN :
                    /\ vendorOn' = vendorEnabled
                    /\ written' = IF merged.err = Nil /\ env.write THEN lines ELSE written
                    /\ cmdLog' = cmdLog \o FinishSteps(merged.err, env, vendorEnabled)
                    /\ finishErr' = FinishError(merged.err, env, vendorEnabled)
    /\ gomodPc' = "finished"
    /\ UNCHANGED <<taskVars, fsVars, applyVars, diffVars, addOrder, extVars>>

\* The manifests the run starts from: the Replace entries parsed from go.mod.
InitialFiles ==
    {<<>>,
     <<Parsed("p", "v1", "Z", NoComment)>>,
     <<Parsed("p", "", "Z", Marker("managed")), Parsed("q", "", "W", NoComment)>>,
     <<Parsed("q", "", "W", Marker("managed"))>>}

-----------------------------------------------------------------------------
(* The task dispatcher (Task.Run) and the variants without a model of      *)
(* their own.                                                              *)

\* TaskRegexp.run: it fails when the expression does not compile, the
\* file cannot be read or nothing matches, and returns (nil, nil) else.
TaskRegexpRun ==
    {RetNil("error parsing regexp"), RetNil("open: no such file or directory"),
     RetNil("regexp doesn't match content"), RetNil(Nil)}

\* TaskGoModReplace.run
TaskGoModReplaceRun == {RetNil("ErrNotImplemented")}

\* A collection that overlooks the Regexp variant.
RunnersWithoutRegexp(t) ==
    (IF t.SyncDirectory THEN <<"SyncDirectory">> ELSE <<>>)
    \o (IF t.Diff THEN <<"Diff">> ELSE <<>>)
    \o (IF t.GoModReplace THEN <<"GoModReplace">> ELSE <<>>)

\* The runners Task.Run collects: one per non-nil variant, in this order.
Runners(t) ==
    (IF t.SyncDirectory THEN <<"SyncDirectory">> ELSE <<>>)
    \o (IF t.Diff THEN <<"Diff">> ELSE <<>>)
    \o (IF t.GoModReplace THEN <<"GoModReplace">> ELSE <<>>)
    \o (IF t.Regexp THEN <<"Regexp">> ELSE <<>>)

\* runners[0].run(ctx): the possible returns of a variant's executor in
\* the current state.
RunnerReturns(v) ==
    CASE v = "SyncDirectory" -> TaskSyncDirectoryRun(task, srcFiles, dstFiles, dstDirs)
      [] v = "Diff"          -> {TaskDiffRun(diffErr, diffStdout, diffDest)}
      [] v = "GoModReplace"  -> TaskGoModReplaceRun
      [] v = "Regexp"        -> TaskRegexpRun

\* Task.Run
TaskRun ==
    /\ pc \in {"ready", "applied"}
    /\ runs < MaxRuns
    /\ LET runners == Runners(task)
       IN  IF Len(runners) = 0
           THEN /\ runRet' = RetNil("No task implementation specified")
                /\ UNCHANGED <<invoked, execRet>>
           ELSE IF Len(runners) > 1
           THEN /\ runRet' = RetNil("More than one task implementations specified")
                /\ UNCHANGED <<invoked, execRet>>
           ELSE \E ret \in RunnerReturns(runners[1]) :
                    /\ execRet' = ret
                    /\ runRet' = ret
                    /\ invoked' = Append(invoked, runners[1])
    /\ firstRet' = IF runs = 0 THEN runRet' ELSE firstRet
    /\ runs' = runs + 1
    /\ pc' = "ran"
    /\ UNCHANGED <<task, fsVars, applyVars, diffVars, gomodVars, extVars>>

\* The Result a task returned is applied: the entry of Result.Apply.
ApplyTaskResult ==
    /\ pc = "ran"
    /\ runRet.err = Nil
    /\ ~runRet.nilRes
    /\ result' = runRet.res
    /\ pc' = LoopFrom(runRet.res, 1)
    /\ applyIdx' = 1
    /\ attempted' = <<>>
    /\ applyErrs' = <<>>
    /\ applyRet' = "none"
    /\ UNCHANGED <<task, runs, invoked, execRet, runRet, firstRet, fsVars, diffVars, gomodVars, extVars>>

-----------------------------------------------------------------------------
(* Initial states.                                                         *)

NoTask ==
    [SyncDirectory |-> FALSE, Diff |-> FALSE, GoModReplace |-> FALSE, Regexp |-> FALSE,
     Recursive |-> "nil", Glob |-> ""]

EmptyTree == [p \in Paths |-> Absent]

TaskIdle ==
    /\ runs = 0
    /\ invoked = <<>>
    /\ execRet = NoRet
    /\ runRet = NoRet
    /\ firstRet = NoRet

ApplyIdle ==
    /\ result = EmptyResult
    /\ applyIdx = 1
    /\ attempted = <<>>
    /\ applyErrs = <<>>
    /\ applyRet = "none"

\* The process runs in the root path; every directory can be read.
CwdIdle ==
    /\ cwd = RootDir
    /\ offFiles = EmptyTree
    /\ offDirs = {RootDir}

FsIdle ==
    /\ srcFiles = EmptyTree
    /\ dstFiles = EmptyTree
    /\ dstDirs = {RootDir}
    /\ walkFault = "none"
    /\ CwdIdle

DiffIdle ==
    /\ diffErr = NoError
    /\ diffStdout = <<>>
    /\ diffDest = <<>>

PatchIdle ==
    /\ patchBody = <<>>
    /\ patchCount = 0
    /\ patchRet = NoPatchErr
    /\ patchSteps = <<>>
    /\ patchTool = NotWaited
    /\ rejectFile = "none"

AggIdle ==
    /\ aggArgs = <<>>
    /\ aggRet = NoAggregate

AppIdle ==
    /\ appVariant = "tasks"
    /\ appPkgs = <<>>
    /\ appPos = 0
    /\ appPc = "start"
    /\ appResults = <<>>
    /\ appApplied = <<>>
    /\ appFinish = "no"
    /\ appRet = NotReturned

ExtIdle == PatchIdle /\ AggIdle /\ AppIdle

GoModIdle ==
    /\ replaces = <<>>
    /\ fileReplace = <<>>
    /\ addOrder = <<>>
    /\ gomodPc = "open"
    /\ finishErr = "none"
    /\ written = {}
    /\ cmdLog = <<>>
    /\ vendorOn = FALSE

\* The dispatcher: a Task with any combination of variants set.
Init ==
    /\ task \in [SyncDirectory : BOOLEAN, Diff : BOOLEAN, GoModReplace : BOOLEAN,
                 Regexp : BOOLEAN, Recursive : {"nil"}, Glob : {""}]
    /\ pc = "ready"
    /\ TaskIdle
    /\ ApplyIdle
    /\ srcFiles \in SrcTrees
    /\ dstFiles = [p \in Paths |-> IF p = "f" THEN "c1" ELSE Absent]
    /\ dstDirs = {RootDir}
    /\ walkFault = "none"
    /\ CwdIdle
    /\ diffErr \in DiffErrs
    /\ diffStdout \in {<<>>, JoinLines(<<HeaderOld(<<"a">>), HeaderNew(<<"a">>), HunkHeader>>)}
    /\ DiffRunOK(diffErr, diffStdout)
    /\ diffDest = <<"d">>
    /\ GoModIdle
    /\ ExtIdle

Next == TaskRun

Spec == Init /\ [][Next]_vars

\* A sync-directory task on any pair of trees, run, applied and run again.
InitSync ==
    /\ task \in [SyncDirectory : {TRUE}, Diff : {FALSE}, GoModReplace : {FALSE},
                 Regexp : {FALSE}, Recursive : RecursiveFlags, Glob : Globs]
    /\ pc = "ready"
    /\ TaskIdle
    /\ ApplyIdle
    /\ srcFiles \in SrcTrees
    /\ dstFiles \in SrcTrees
    /\ dstDirs \in SUBSET {RootDir, SubDir}
    /\ DstTreeOK(dstFiles, dstDirs)
    /\ walkFault \in WalkFaults
    /\ CwdIdle
    /\ DiffIdle
    /\ GoModIdle
    /\ ExtIdle

NextSync == TaskRun \/ ApplyTaskResult \/ DeleteStep \/ CopyStep \/ ApplyReturn

SpecSync == InitSync /\ [][NextSync]_vars

\* The same pipeline with the tool started in the root path or in a
\* sub-directory of it: New finds the configuration file in a parent of the
\* working directory and does not change the working directory.  The
\* directory that t.Destination names below the working directory is
\* missing or empty.
InitCwd ==
    /\ task \in [SyncDirectory : {TRUE}, Diff : {FALSE}, GoModReplace : {FALSE},
                 Regexp : {FALSE}, Recursive : RecursiveFlags, Glob : Globs]
    /\ pc = "ready"
    /\ TaskIdle
    /\ ApplyIdle
    /\ srcFiles \in SrcTrees
    /\ dstFiles \in SrcTrees
    /\ dstDirs \in SUBSET {RootDir, SubDir}
    /\ DstTreeOK(dstFiles, dstDirs)
    /\ walkFault = "none"
    /\ cwd \in {RootDir, SubDir}
    /\ offFiles = EmptyTree
    /\ offDirs \in (IF cwd = RootDir THEN {{RootDir}} ELSE {{}, {RootDir}})
    /\ DiffIdle
    /\ GoModIdle
    /\ ExtIdle

NextCwd == TaskRun \/ ApplyTaskResult \/ DeleteStep \/ CopyStep \/ ApplyReturn

SpecCwd == InitCwd /\ [][NextCwd]_vars

\* Result.Apply on arbitrary Results: lists of up to MaxOps patches,
\* deletions (of files and of a directory) and copies (from files and from
\* a directory), on a few trees.
ApplyCopies ==
    {[Source |-> "f", Destination |-> "f"],
     [Source |-> "g", Destination |-> "sub/f"],
     [Source |-> SubDir, Destination |-> "g"]}

ApplyDeletes == {"f", SubDir}

ApplyPatches == {[Body |-> JoinLines(<<HunkHeader>>)]}

ApplySrcTrees ==
    {[p \in Paths |-> IF p = "f" THEN "c1" ELSE Absent],
     [p \in Paths |-> IF p = "sub/f" THEN "c1" ELSE "c2"]}

ApplyDstTrees ==
    {[files |-> EmptyTree, dirs |-> {RootDir}],
     [files |-> [p \in Paths |-> IF p = "f" THEN "c2" ELSE Absent], dirs |-> {RootDir}],
     [files |-> [p \in Paths |-> IF p = "g" THEN Absent ELSE "c1"], dirs |-> {RootDir, SubDir}]}

InitApply ==
    /\ task = NoTask
    /\ TaskIdle
    /\ result \in [FilesToCopy   : SeqsUpTo(ApplyCopies, MaxOps),
                   FilesToDelete : SeqsUpTo(ApplyDeletes, MaxOps),
                   Patches       : SeqsUpTo(ApplyPatches, MaxOps)]
    /\ pc = LoopFrom(result, 1)
    /\ applyIdx = 1
    /\ attempted = <<>>
    /\ applyErrs = <<>>
    /\ applyRet = "none"
    /\ srcFiles \in ApplySrcTrees
    /\ \E d \in ApplyDstTrees : dstFiles = d.files /\ dstDirs = d.dirs
    /\ walkFault = "none"
    /\ CwdIdle
    /\ DiffIdle
    /\ GoModIdle
    /\ ExtIdle

NextApply == PatchStep \/ DeleteStep \/ CopyStep \/ ApplyReturn

SpecApply == InitApply /\ [][NextApply]_vars

\* The diff task on every output of the diff tool.
InitDiff ==
    /\ task = [NoTask EXCEPT !.Diff = TRUE]
    /\ pc = "ready"
    /\ TaskIdle
    /\ ApplyIdle
    /\ FsIdle
    /\ diffErr \in DiffErrs
    /\ diffStdout \in DiffOutputs
    /\ DiffRunOK(diffErr, diffStdout)
    /\ diffDest \in Destinations
    /\ GoModIdle
    /\ ExtIdle

NextDiff == TaskRun

SpecDiff == InitDiff /\ [][NextDiff]_vars

\* The replace merger: AddReplace calls on a parsed manifest, then Finish.
InitGoMod ==
    /\ task = NoTask
    /\ pc = "ready"
    /\ TaskIdle
    /\ ApplyIdle
    /\ FsIdle
    /\ DiffIdle
    /\ replaces = <<>>
    /\ addOrder = <<>>
    /\ fileReplace \in InitialFiles
    /\ gomodPc = "open"
    /\ finishErr = "none"
    /\ written = Format(fileReplace)
    /\ cmdLog = <<>>
    /\ vendorOn = FALSE
    /\ ExtIdle

NextGoMod == AddReplace \/ Finish

SpecGoMod == InitGoMod /\ [][NextGoMod]_vars

\* Patch.Apply calls on a patch.
InitPatch ==
    /\ task = NoTask
    /\ pc = "ready"
    /\ TaskIdle
    /\ ApplyIdle
    /\ FsIdle
    /\ DiffIdle
    /\ GoModIdle
    /\ patchBody \in {p.Body : p \in ApplyPatches}
    /\ patchCount = 0
    /\ patchRet = NoPatchErr
    /\ patchSteps = <<>>
    /\ patchTool = NotWaited
    /\ rejectFile = "none"
    /\ AggIdle
    /\ AppIdle

NextPatch == PatchApplyCall

SpecPatch == InitPatch /\ [][NextPatch]_vars

\* AggregateResult on any list of arguments.
InitAggregate ==
    /\ task = NoTask
    /\ pc = "ready"
    /\ TaskIdle
    /\ ApplyIdle
    /\ FsIdle
    /\ DiffIdle
    /\ GoModIdle
    /\ PatchIdle
    /\ aggArgs \in SeqsUpTo(AggInputs, MaxResults)
    /\ aggRet = NoAggregate
    /\ AppIdle

NextAggregate == AggregateCall

SpecAggregate == InitAggregate /\ [][NextAggregate]_vars

\* App.Run of either version on any configuration of at most two packages.
InitApp ==
    /\ task = NoTask
    /\ pc = "ready"
    /\ TaskIdle
    /\ ApplyIdle
    /\ FsIdle
    /\ DiffIdle
    /\ GoModIdle
    /\ PatchIdle
    /\ AggIdle
    /\ appVariant \in AppVariants
    /\ appPkgs \in PackageLists
    /\ appPos = 0
    /\ appPc = "start"
    /\ appResults = <<>>
    /\ appApplied = <<>>
    /\ appFinish = "no"
    /\ appRet = NotReturned

NextApp ==
    AppStart \/ AppPackage \/ AppWorkToDo \/ AppGit \/ AppApply \/ AppFinish \/ AppPublish

SpecApp == InitApp /\ [][NextApp]_vars

-----------------------------------------------------------------------------
(* Properties.                                                             *)

VariantNames == {"SyncDirectory", "Diff", "GoModReplace", "Regexp"}
NumVariants(t) == Cardinality({v \in VariantNames : t[v]})

\* C1: Task.Run on a Task with no variant set returns an error and on a
\* Task with two or more variants set returns another error, in both cases
\* without invoking any executor; with exactly one variant set it invokes
\* that variant's executor exactly once and returns what it returned.
C1_DispatchExactlyOne ==
    pc = "ran" =>
        /\ NumVariants(task) = 0 =>
              /\ runRet = RetNil("No task implementation specified")
              /\ invoked = <<>>
        /\ NumVariants(task) >= 2 =>
              /\ runRet = RetNil("More than one task implementations specified")
              /\ invoked = <<>>
        /\ NumVariants(task) = 1 =>
              /\ Len(invoked) = 1
              /\ task[invoked[1]]
              /\ runRet = execRet

\* A Task with only the diff variant has run and returned a Result.
C1_Witness ==
    /\ pc = "ran"
    /\ NumVariants(task) = 1
    /\ invoked = <<"Diff">>
    /\ ~runRet.nilRes
    /\ runRet.err = Nil

\* C1, second case: a Task with two variants has been refused.
C1_WitnessTwo ==
    /\ pc = "ran"
    /\ NumVariants(task) = 2
    /\ runRet.err = "More than one task implementations specified"

\* The operations of each kind that a Result schedules for relative path p.
CopiesOf(r, p) == {i \in 1..Len(r.FilesToCopy) : r.FilesToCopy[i].Destination = p}
DeletesOf(r, p) == {i \in 1..Len(r.FilesToDelete) : r.FilesToDelete[i] = p}

\* The filtered file sets of the two trees, as the walk yields them.
FilteredSrc == walkDirectory(task, srcFiles, SrcDirs(srcFiles), walkFault = "src").m
FilteredDst == walkDirectory(task, dstFiles, dstDirs, walkFault = "dst").m

\* C4: the Result of the sync-directory task holds exactly one copy for
\* each filtered path in the source only, one deletion for each in the
\* destination only, one copy for each in both with differing hashes, and
\* nothing else.
C4_SyncExactPlan ==
    (pc = "ran" /\ runRet.err = Nil) =>
        /\ ~runRet.nilRes
        /\ runRet.res.Patches = <<>>
        /\ \A i \in 1..Len(runRet.res.FilesToCopy) :
              /\ runRet.res.FilesToCopy[i].Destination \in Paths
              /\ runRet.res.FilesToCopy[i].Source = runRet.res.FilesToCopy[i].Destination
        /\ \A i \in 1..Len(runRet.res.FilesToDelete) : runRet.res.FilesToDelete[i] \in Paths
        /\ \A p \in Paths :
              /\ Cardinality(CopiesOf(runRet.res, p)) =
                    IF \/ (p \in FilteredSrc /\ p \notin FilteredDst)
                       \/ (p \in FilteredSrc /\ p \in FilteredDst
                           /\ hash(srcFiles[p]) # hash(dstFiles[p]))
                    THEN 1 ELSE 0
              /\ Cardinality(DeletesOf(runRet.res, p)) =
                    IF p \in FilteredDst /\ p \notin FilteredSrc THEN 1 ELSE 0

\* A first run that scheduled a copy of a new file, a copy of a changed
\* file and a deletion, and left an unchanged file alone.
C4_Witness ==
    /\ pc = "ran"
    /\ runs = 1
    /\ runRet.err = Nil
    /\ Len(runRet.res.FilesToCopy) = 2
    /\ Len(runRet.res.FilesToDelete) = 1
    /\ \E p \in Paths : p \in FilteredSrc /\ p \notin FilteredDst
    /\ \E p \in Paths : p \in FilteredSrc /\ p \in FilteredDst /\ srcFiles[p] # dstFiles[p]

\* C5 (as claimed): after a sync run and the application of its Result, a
\* second run of the same task returns an empty Result.
C5_SyncIdempotent ==
    (pc = "ran" /\ runs = 2) => (runRet.err = Nil /\ IsEmpty(runRet.res))

\* C6: no relative path is scheduled both for copy and for deletion in the
\* Result of one sync-directory run.
C6_NoCopyAndDelete ==
    (pc = "ran" /\ runRet.err = Nil) =>
        \A p \in Paths : CopiesOf(runRet.res, p) = {} \/ DeletesOf(runRet.res, p) = {}

\* A run that scheduled both a copy (of a changed file) and a deletion.
C6_Witness ==
    /\ pc = "ran"
    /\ runRet.err = Nil
    /\ Len(runRet.res.FilesToDelete) > 0
    /\ \E p \in Paths :
          /\ CopiesOf(runRet.res, p) # {}
          /\ p \in FilteredSrc /\ p \in FilteredDst

\* The log entries of Result.Apply for element k of the list of a kind.
AttemptsOf(kind, k) ==
    {i \in 1..Len(attempted) : attempted[i].kind = kind /\ attempted[i].idx = k}

\* Every element of the list of a kind has been attempted before log entry i.
AllBefore(kind, i) ==
    \A k \in 1..Len(OpsOf(result, kind)) : \E j \in AttemptsOf(kind, k) : j < i

\* C2: in Result.Apply every patch has been attempted before the first
\* deletion is, and every deletion (and patch) before the first copy is,
\* whatever failed before.
C2_ApplyOrder ==
    \A i \in 1..Len(attempted) :
        /\ attempted[i].kind = "delete" => AllBefore("patch", i)
        /\ attempted[i].kind = "copy" => AllBefore("patch", i) /\ AllBefore("delete", i)

\* An Apply with patches, deletions and copies, whose first patch failed,
\* has reached its copies.
C2_Witness ==
    /\ Len(result.Patches) > 0
    /\ Len(result.FilesToDelete) > 0
    /\ Len(result.FilesToCopy) > 0
    /\ Len(attempted) > 0
    /\ ~attempted[1].ok
    /\ \E i \in 1..Len(attempted) : attempted[i].kind = "copy"

AllKinds == {"patch", "delete", "copy"}
Failed == {i \in 1..Len(attempted) : ~attempted[i].ok}

\* C3: Result.Apply attempts every operation exactly once whatever fails,
\* returns nil iff every operation succeeded, and otherwise a combined
\* error with exactly one entry per failed operation.
C3_ApplyBestEffort ==
    pc = "applied" =>
        /\ \A kind \in AllKinds : \A k \in 1..Len(OpsOf(result, kind)) :
              Cardinality(AttemptsOf(kind, k)) = 1
        /\ Len(attempted) =
              Len(result.Patches) + Len(result.FilesToDelete) + Len(result.FilesToCopy)
        /\ (applyRet = Nil) <=> (Failed = {})
        /\ Len(applyErrs) = Cardinality(Failed)
        /\ \A i \in Failed :
              Cardinality({j \in 1..Len(applyErrs) :
                              /\ applyErrs[j].kind = attempted[i].kind
                              /\ applyErrs[j].idx = attempted[i].idx}) = 1

\* An Apply that returned after two failures and a success behind a failure.
C3_Witness ==
    /\ pc = "applied"
    /\ Cardinality(Failed) >= 2
    /\ \E i \in Failed : \E j \in 1..Len(attempted) : j > i /\ attempted[j].ok
    /\ applyRet = "multierror"

\* The text of a line from its first tab onward; nothing without a tab.
FromFirstTab(line) ==
    IF IndexOf(line, 1, Len(line), TAB) = 0 THEN <<>>
    ELSE SubSeq(line, IndexOf(line, 1, Len(line), TAB), Len(line))

\* The image of one line of the diff tool's output in the patch body.
ImageOfLine(line, dest) ==
    IF HasPrefix3(line, 1, Len(line), "+")
    THEN SubSeq(line, 1, 4) \o Join(<<"n", "e", "w">>, dest) \o FromFirstTab(line) \o <<NL>>
    ELSE IF HasPrefix3(line, 1, Len(line), "-")
    THEN SubSeq(line, 1, 4) \o Join(<<"o", "l", "d">>, dest) \o FromFirstTab(line) \o <<NL>>
    ELSE line \o <<NL>>

\* The line-by-line image of an output whose lines all end in a newline.
RECURSIVE ImageOf(_, _)
ImageOf(out, dest) ==
    IF out = <<>> THEN <<>>
    ELSE LET nl == IndexOf(out, 1, Len(out), NL)
         IN  ImageOfLine(SubSeq(out, 1, nl - 1), dest)
                \o ImageOf(SubSeq(out, nl + 1, Len(out)), dest)

\* C9 (as claimed): the patch body of the diff task is the line-by-line
\* image of the diff tool's output: a line beginning +++ or --- becomes its
\* first four bytes, new/<destination> or old/<destination>, and the
\* line's text from its first tab onward; every other line is unchanged.
C9_PatchBodyIsImage ==
    (pc = "ran" /\ runRet.err = Nil) =>
        /\ Len(runRet.res.Patches) = 1
        /\ runRet.res.Patches[1].Body = ImageOf(diffStdout, diffDest)

\* The lines of an output whose lines all end in a newline.
RECURSIVE LinesOf(_)
LinesOf(out) ==
    IF out = <<>> THEN <<>>
    ELSE LET nl == IndexOf(out, 1, Len(out), NL)
         IN  <<SubSeq(out, 1, nl - 1)>> \o LinesOf(SubSeq(out, nl + 1, Len(out)))

\* The joined path fits in front of the first tab of every line that is
\* rewritten.
PathFits(out, dest) ==
    \A k \in 1..Len(LinesOf(out)) :
        LET line == LinesOf(out)[k]
        IN  /\ HasPrefix3(line, 1, Len(line), "+") =>
                  IndexOf(line, 1, Len(line), TAB) > 4 + Len(Join(<<"n", "e", "w">>, dest))
            /\ HasPrefix3(line, 1, Len(line), "-") =>
                  IndexOf(line, 1, Len(line), TAB) > 4 + Len(Join(<<"o", "l", "d">>, dest))

\* Where the joined path fits in front of the tab of every rewritten line,
\* the patch body is the line-by-line image of the output.
DiffImageWhenPathFits ==
    (pc = "ran" /\ runRet.err = Nil /\ PathFits(diffStdout, diffDest)) =>
        runRet.res.Patches[1].Body = ImageOf(diffStdout, diffDest)

-----------------------------------------------------------------------------
(* Properties of the replace merger.                                       *)

\* The module paths and the module versions a build may ask for; "v2" is a
\* version that no directive names.
ModPaths == {"p", "q"}
ModuleVersions == {"v1", "v2"}

\* The replacement the go command applies to path@version under a set of
\* replace lines: that of the line for this very version, else that of the
\* line without a version.  (The set of targets; a single one in a valid
\* manifest, none when the module is not replaced.)
Effective(lines, path, version) ==
    LET exact == {l \in lines : l.Path = path /\ l.Version = version}
        wild  == {l \in lines : l.Path = path /\ l.Version = ""}
    IN  IF exact # {} THEN {l.New : l \in exact} ELSE {l.New : l \in wild}

\* The calls of AddReplace for an old path, as positions of addOrder.
DirectivesFor(path) == {i \in 1..Len(addOrder) : addOrder[i].Old.Path = path}

DistinctPriorities(I) ==
    \A i, j \in I : i # j => addOrder[i].Priority # addOrder[j].Priority

EqualPriorities(I) ==
    \A i, j \in I : addOrder[i].Priority = addOrder[j].Priority

HighestOf(I) == CHOOSE i \in I : \A j \in I : addOrder[j].Priority <= addOrder[i].Priority

LastOf(I) == CHOOSE i \in I : \A j \in I : j <= i

\* The module versions a directive speaks for.
VersionsOf(d) == IF d.Old.Version = "" THEN ModuleVersions ELSE {d.Old.Version}

\* Whether directive d is what the manifest, in memory and (once written)
\* on disk, applies to the module versions in Vs of its old path.
Reflected(d, Vs) ==
    /\ \A v \in Vs : Effective(Format(fileReplace), d.Old.Path, v) = {d.New}
    /\ finishErr \in {Nil, "go mod verify", "go mod vendor"} =>
          \A v \in Vs : Effective(written, d.Old.Path, v) = {d.New}

\* C7: for directives for the same old path with distinct
\* priorities, added in any order, after Finish the manifest replaces the
\* module that the highest-priority directive names (the old path at the
\* directive's old version, or at every version when it gives none) by
\* that directive's target.
C7_HighestPriorityWins ==
    gomodPc = "finished" =>
        \A path \in ModPaths :
            LET I == DirectivesFor(path)
            IN  (I # {} /\ DistinctPriorities(I)) =>
                    Reflected(addOrder[HighestOf(I)], VersionsOf(addOrder[HighestOf(I)]))

\* The higher of two priorities was added first and for another target, so
\* that Finish has to reorder, and Finish succeeded.
C7_Witness ==
    /\ gomodPc = "finished"
    /\ finishErr = Nil
    /\ Len(addOrder) = 2
    /\ addOrder[1].Priority > addOrder[2].Priority
    /\ addOrder[1].Old = addOrder[2].Old
    /\ addOrder[1].New # addOrder[2].New

\* The directives of rs of one priority, in their order in rs.
OfPriority(rs, prio) == SelectSeq(rs, LAMBDA d : d.Priority = prio)

\* What a stable sort by priority makes of rs.
StableSort(rs) ==
    OfPriority(rs, GoModReplaceUpstreamReplace)
    \o OfPriority(rs, GoModReplaceUpstreamPackageVersion)
    \o OfPriority(rs, GoModReplacePriorityManagedPackage)

\* C8: directives of equal priority keep their AddReplace order through
\* Finish, so among the directives for one old path, all of one priority,
\* the one added last is the one the manifest reflects after Finish.
C8_StableTies ==
    gomodPc = "finished" =>
        /\ replaces = StableSort(addOrder)
        /\ \A path \in ModPaths :
              LET I == DirectivesFor(path)
              IN  (I # {} /\ EqualPriorities(I)) =>
                      Reflected(addOrder[LastOf(I)], VersionsOf(addOrder[LastOf(I)]))

-----------------------------------------------------------------------------
(* Properties of Patch.Apply.                                              *)

\* C11: Patch.Apply returns nil iff the tool exits 0; a PatchError, with
\* the original error, the bytes of the reject file and the tool's output,
\* iff the tool exits 1 and the reject file is readable and not empty; a
\* plain error without reject payload in every other case.  The Reject of a
\* PatchError is never empty.
C11_PatchClassification ==
    patchCount > 0 =>
        /\ patchRet.kind = "nil" <=> (patchTool.waited /\ patchTool.exit = 0)
        /\ patchRet.kind = "PatchError" <=>
              /\ patchTool.waited
              /\ patchTool.exit = 1
              /\ patchTool.reject # "unreadable"
              /\ patchTool.rejectBody # <<>>
        /\ patchRet.kind = "PatchError" =>
              /\ patchRet.Upstream = WaitErr(1, patchTool.out, patchTool.errout)
              /\ patchRet.Reject = patchTool.rejectBody
              /\ Len(patchRet.Reject) > 0
              /\ patchRet.msg = patchTool.out
        /\ patchRet.kind \in {"nil", "PatchError", "error"}
        /\ patchRet.kind = "error" => patchRet.Reject = <<>> /\ patchRet.msg = <<>>

\* The tool exited 1 and left two bytes of rejects: a PatchError.
C11_Witness ==
    /\ patchCount > 0
    /\ patchTool.waited
    /\ patchTool.exit = 1
    /\ patchRet.kind = "PatchError"
    /\ Len(patchRet.Reject) = 2
    /\ patchRet.msg # <<>>

\* C12: once Patch.Apply has created its temporary reject file, the file
\* is removed when Apply returns, on every exit path.
C12_RejectFileRemoved ==
    (patchCount > 0 /\ patchSteps[1] = "tempfile" /\ Len(patchSteps) > 1) =>
        rejectFile = "removed"

\* Apply returned early, the tool could not be started, after the reject
\* file was created.
C12_Witness ==
    /\ patchCount > 0
    /\ patchSteps = <<"tempfile", "close", "pipe", "start">>
    /\ patchRet.kind = "error"
    /\ rejectFile = "removed"

-----------------------------------------------------------------------------
(* Properties of AggregateResult.                                          *)

\* The lists of the three change-sets.
ChangeSets == {"FilesToCopy", "FilesToDelete", "Patches"}
ListOf(r, cs) ==
    CASE cs = "FilesToCopy"   -> r.FilesToCopy
      [] cs = "FilesToDelete" -> r.FilesToDelete
      [] cs = "Patches"       -> r.Patches

\* The number of elements that the non-nil arguments before the i-th hold
\* in change-set cs.
RECURSIVE OffsetOf(_, _, _)
OffsetOf(args, i, cs) ==
    IF i <= 1 THEN 0
    ELSE OffsetOf(args, i - 1, cs)
         + (IF args[i - 1].isNil THEN 0 ELSE Len(ListOf(args[i - 1].r, cs)))

\* C13: each list of the aggregate is the concatenation, in argument
\* order, of that list of the non-nil arguments; nil arguments are skipped;
\* the aggregate is empty iff every non-nil argument is.
C13_AggregateConcatenates ==
    aggRet.returned =>
        /\ \A cs \in ChangeSets :
              /\ Len(ListOf(aggRet.r, cs)) = OffsetOf(aggArgs, Len(aggArgs) + 1, cs)
              /\ \A i \in 1..Len(aggArgs) :
                    ~aggArgs[i].isNil =>
                        \A j \in 1..Len(ListOf(aggArgs[i].r, cs)) :
                            ListOf(aggRet.r, cs)[OffsetOf(aggArgs, i, cs) + j]
                                = ListOf(aggArgs[i].r, cs)[j]
        /\ IsEmpty(aggRet.r) <=>
              \A i \in 1..Len(aggArgs) : aggArgs[i].isNil \/ IsEmpty(aggArgs[i].r)

\* A nil argument between two Results that both hold copies and
\* deletions.
C13_Witness ==
    /\ aggRet.returned
    /\ Len(aggArgs) = 3
    /\ ~aggArgs[1].isNil /\ aggArgs[2].isNil /\ ~aggArgs[3].isNil
    /\ Len(aggArgs[1].r.FilesToCopy) = 2
    /\ Len(aggArgs[3].r.FilesToCopy) = 1
    /\ Len(aggRet.r.FilesToCopy) = 3
    /\ Len(aggRet.r.FilesToDelete) = 2

\* Whether a manifest line carries the marker comment of a managed entry.
IsManaged(line) == line.Before # NoComment /\ line.Before[1] = Marker("")[1]

\* C14: after Finish, the manifest holds no managed-marked replace entry
\* for an old path that no directive accumulated in this run asserts.
C14_StaleManagedRemoved ==
    gomodPc = "finished" =>
        \A line \in Format(fileReplace) :
            IsManaged(line) => DirectivesFor(line.Path) # {}

\* The first k steps of Finish after the merge.
FinishPrefix(k) == SubSeq(<<"write go.mod", "go mod verify", "go mod vendor">>, 1, k)

\* C15: Finish runs merge, serialize, write, verify, vendor in this order
\* and the first failing step aborts the rest: the file is written only
\* when all directives were merged, verify runs only after a successful
\* write, vendor runs only when vendoring is enabled and verify succeeded.
C15_FinishStepOrder ==
    gomodPc = "finished" =>
        LET mergeFailed == finishErr \notin {Nil, "write go.mod", "go mod verify", "go mod vendor"}
            wrote       == finishErr \in {Nil, "go mod verify", "go mod vendor"}
            verified    == finishErr \in {Nil, "go mod vendor"}
        IN  /\ \E k \in 0..3 : cmdLog = FinishPrefix(k)
            /\ Len(cmdLog) >= 1 <=> ~mergeFailed
            /\ Len(cmdLog) >= 2 <=> wrote
            /\ Len(cmdLog) = 3 <=> (verified /\ vendorOn)
            /\ wrote => written = Format(fileReplace)

\* Vendoring is enabled, go mod verify has failed after a successful write.
C15_Witness ==
    /\ gomodPc = "finished"
    /\ vendorOn
    /\ finishErr = "go mod verify"
    /\ cmdLog = FinishPrefix(2)
    /\ Len(addOrder) = 2

-----------------------------------------------------------------------------
(* Properties of the directory walk.                                       *)

\* The files the walk is to include: the recursion flag is nil or true or
\* the file sits directly in the walked root, and the glob is empty or
\* matches the file's base name.
ShouldInclude(t, files, p) ==
    /\ files[p] # Absent
    /\ (t.Recursive \in {"nil", "true"} \/ Dir(p) = RootDir)
    /\ (t.Glob = "" \/ Match(t.Glob, Base(p)))

\* The first filesystem error that the two walks (source, then
\* destination) meet in the current trees; Nil when there is none.
FirstWalkError ==
    IF walkFault = "src" /\ \E p \in Paths : srcFiles[p] # Absent /\ Dir(p) = SubDir
    THEN "open: permission denied"
    ELSE IF RootDir \notin dstDirs THEN "lstat: no such file or directory"
    ELSE IF walkFault = "dst" /\ SubDir \in dstDirs THEN "open: permission denied"
    ELSE Nil

\* C16: the walk includes a regular file iff (recursion is nil or true, or
\* the file sits directly in the root) and (the glob is empty or matches
\* the base name); directories are never included; the first filesystem
\* error of a walk makes the task fail with that error and without a plan.
C16_WalkFilter ==
    pc = "ran" =>
        IF FirstWalkError # Nil
        THEN runRet.err = FirstWalkError /\ runRet.nilRes
        ELSE /\ runRet.err = Nil
             /\ \A i \in 1..Len(runRet.res.FilesToCopy) :
                   ~IsDir(runRet.res.FilesToCopy[i].Destination)
             /\ \A i \in 1..Len(runRet.res.FilesToDelete) :
                   ~IsDir(runRet.res.FilesToDelete[i])
             /\ \A p \in Paths :
                   LET inSrc  == ShouldInclude(task, srcFiles, p)
                       inDst  == ShouldInclude(task, dstFiles, p)
                       copied == CopiesOf(runRet.res, p) # {}
                       gone   == DeletesOf(runRet.res, p) # {}
                   IN  /\ copied <=> inSrc /\ (~inDst \/ srcFiles[p] # dstFiles[p])
                       /\ gone <=> inDst /\ ~inSrc

\* A flat walk with a glob: of three source files only the one in the root
\* that matches is planned, next to a directory in the destination.
C16_Witness ==
    /\ pc = "ran"
    /\ runRet.err = Nil
    /\ task.Recursive = "false"
    /\ task.Glob = "f*"
    /\ \A p \in Paths : srcFiles[p] # Absent /\ dstFiles[p] = Absent
    /\ SubDir \in dstDirs
    /\ Len(runRet.res.FilesToCopy) = 1
    /\ runRet.res.FilesToCopy[1].Destination = "f"

-----------------------------------------------------------------------------
(* App.Run.                                                                *)

\* The packages of the configuration whose version moved and that have a
\* task with an operation in its Result.
MovedWithChange ==
    {i \in 1..Len(appPkgs) :
        appPkgs[i].moved /\ \E k \in 1..Len(appPkgs[i].tasks) : appPkgs[i].tasks[k] = "change"}

\* The operation of package name was handed to an Apply call.
AppliedFor(name) ==
    \E j \in 1..Len(appApplied) :
        \E k \in 1..Len(appApplied[j].r.FilesToDelete) :
            appApplied[j].r.FilesToDelete[k] = name

\* No download and no task of the configuration fails.
NothingFails ==
    \A i \in 1..Len(appPkgs) :
        /\ appPkgs[i].download = "ok"
        /\ \A k \in 1..Len(appPkgs[i].tasks) : appPkgs[i].tasks[k] # "err"

\* C17: App.Run takes up every configured package, in any iteration order;
\* a package whose version did not move contributes nothing and the loop
\* goes on, so that a run which returns nil has applied the Results of the
\* packages whose version moved, wherever the unchanged package falls.
C17_EveryPackageProcessed ==
    appRet.returned /\ appRet.err = "none" =>
        /\ appPos = Len(appPkgs)
        /\ \A i \in MovedWithChange : AppliedFor(appPkgs[i].name)

\* The tasks of the i-th package are run: both downloads succeed and the
\* version moved.
TasksRun(i) == appPkgs[i].download = "ok" /\ appPkgs[i].moved

\* A task of the i-th package returns an error.
HasFailingTask(i) == \E k \in 1..Len(appPkgs[i].tasks) : appPkgs[i].tasks[k] = "err"

\* C18: the first error a task of any package returns ends App.Run with
\* that error, and then no Result has been applied and Finish has not
\* written the manifest; an Apply call is made only after the loop has
\* taken up every package and every task that ran returned without error.
C18_TaskErrorAbortsBeforeApply ==
    /\ \A i \in 1..appPos :
          TasksRun(i) /\ HasFailingTask(i) =>
              /\ appRet = Returned("task", "tasks")
              /\ appPos = i
              /\ appApplied = <<>>
              /\ appFinish = "no"
    /\ appApplied # <<>> \/ appFinish # "no" =>
          /\ appPos = Len(appPkgs)
          /\ \A i \in 1..Len(appPkgs) : TasksRun(i) => ~HasFailingTask(i)

\* The second package's task fails after the first package's task has
\* returned a Result with an operation: the run has returned the error and
\* the collected Result is not applied.
C18_Witness ==
    /\ Len(appPkgs) = 2
    /\ appPos = 2
    /\ 1 \in MovedWithChange
    /\ TasksRun(2) /\ HasFailingTask(2)
    /\ appRet = Returned("task", "tasks")
    /\ \E j \in 1..Len(appResults) : ~IsEmpty(appResults[j].r)
    /\ appApplied = <<>>

\* The version of some configured package moved.
SomeMoved == \E i \in 1..Len(appPkgs) : appPkgs[i].moved

\* The return statements of App.Run after the loop over the packages.
AfterLoop == {"no changes", "status failed", "stash failed", "apply", "finish", "end"}

\* C19: with a GoMod, a goMod-update Result is never empty.  When the
\* package loop has ended and the version of some package moved, the "No
\* changes necessary" exit is not taken, even if every task Result is
\* empty: unless git status or git stash fails, the Results are applied,
\* the goMod-update first, and unless an Apply fails Finish is called.
\* When no version moved the exit is taken, with no Apply and no Finish.
C19_GoModUpdateIsWork ==
    appVariant = "manifest" =>
        /\ \A j \in 1..Len(appResults) :
              appResults[j].kind = "goMod" => ~ResultIsEmpty(appResults[j])
        /\ appPc \in {"git", "apply", "finish", "publish"} => SomeMoved
        /\ appRet.returned /\ appRet.at \in AfterLoop =>
              IF SomeMoved
              THEN /\ appRet.at # "no changes"
                   /\ appRet.at \notin {"status failed", "stash failed"} =>
                         /\ appApplied # <<>>
                         /\ appApplied[1].kind = "goMod"
                         /\ appRet.at # "apply" =>
                               /\ Len(appApplied) = Len(appResults)
                               /\ appFinish # "no"
              ELSE /\ appRet = Returned("none", "no changes")
                   /\ appApplied = <<>>
                   /\ appFinish = "no"

\* A run in which the only package moved and its task returned an empty
\* Result: the update and the empty Result were applied, Finish was called
\* and the run went on to the end.
C19_Witness ==
    /\ appVariant = "manifest"
    /\ Len(appPkgs) = 1
    /\ appPkgs[1].moved
    /\ appPkgs[1].tasks = <<"empty">>
    /\ appRet = Returned("none", "end")
    /\ Len(appApplied) = 2
    /\ \A j \in 1..2 : IsEmpty(appApplied[j].r) /\ appApplied[j].ok
    /\ appFinish = "ok"

-----------------------------------------------------------------------------
(* The working directory.                                                  *)

\* C20: every copy and deletion that the sync-directory task schedules
\* acts, when Result.Apply executes it, on the file of the destination tree
\* that the walk compared, whatever the working directory: nothing is
\* written outside that tree, and an operation that succeeded shows in it.
C20_ApplyActsOnComparedTree ==
    /\ offFiles = EmptyTree
    /\ \A k \in 1..Len(attempted) :
          attempted[k].ok =>
              CASE attempted[k].kind = "copy" ->
                     dstFiles[result.FilesToCopy[attempted[k].idx].Destination] # Absent
                [] attempted[k].kind = "delete" ->
                     dstFiles[result.FilesToDelete[attempted[k].idx]] = Absent
                [] OTHER -> TRUE

-----------------------------------------------------------------------------
(* The hunk lines of the diff task's patch.                                *)

\* C21: in the patch body of the diff task only the two file-header lines
\* of the diff are rewritten: the hunk header and every hunk content line
\* (context, added, removed) are emitted byte for byte, a removed line
\* whose text begins with "--" and an added line whose text begins with
\* "++" included.
C21_HunkLinesVerbatim ==
    (pc = "ran" /\ runRet.err = Nil /\ diffStdout # <<>>) =>
        LET outLines  == LinesOf(diffStdout)
            bodyLines == LinesOf(runRet.res.Patches[1].Body)
        IN  /\ Len(bodyLines) = Len(outLines)
            /\ \A k \in 3..Len(outLines) : bodyLines[k] = outLines[k]

\* C22: the diff task returns a Result only if the diff tool ran and exited
\* with code 0 or 1; when cmd.Run fails with an error that is no exit
\* status (the tool could not be started), run returns an error and no
\* Result, not a Result with an empty patch.
C22_ResultOnlyAfterExit ==
    pc = "ran" =>
        /\ (runRet.err = Nil /\ ~runRet.nilRes) => diffErr \in {NoError, ExitError(1)}
        /\ diffErr.kind = "other" =>
              /\ runRet.err # Nil
              /\ runRet.nilRes

====
